---------------------------- MODULE Spec2Model ----------------------------
(***************************************************************************)
(* Layout core of the sf_history timeline: utils.js (parsePeriod,          *)
(* getYearRange, assignLanes, generateDecades, yearToPosition) and the     *)
(* render pass of js/timeline.js (renderTimeline, renderTimeAxis,          *)
(* renderMovementBars).                                                    *)
(*                                                                         *)
(* JavaScript numbers are modelled as exact values: a finite number is a   *)
(* reduced fraction n/d (d > 0), beside NaN, +Infinity, -Infinity and      *)
(* undefined.  Strings are sequences of one-character strings.             *)
(***************************************************************************)
EXTENDS Integers, Sequences, FiniteSets, TLC

VARIABLES
  movements,   \* configData.movements: the records, each with its lane annotation
  now,         \* new Date().getFullYear()
  yearRange,   \* timeline.js module state
  sorted,      \* assignLanes' local sorted copy, as indices into movements
  axis,        \* the decade markers of #time-axis
  bars,        \* the .movement-bar elements of #movements-bars
  barsHeight,  \* #movements-bars style.height, in px
  rendered,    \* whether a render pass has run
  passNow,     \* the year the last render pass ran in
  prev,        \* what the render pass before the last one left
  parseArg,    \* argument of a direct parsePeriod call
  parseRet,    \* what that call returned
  callArg,     \* arguments of direct yearToPosition / generateDecades calls
  callRet,     \* what the last such call returned
  connections,       \* movement.connections of each record, as its (type, to) entries
  currentSelection,  \* timeline.js module state
  barClass,          \* the selected / highlighted classes of each .movement-bar
  svg,               \* the children of #connections-svg, in document order
  sidebar,           \* classes and content of the details sidebar and its toggle
  zoomLevel,         \* setupZoomControls' zoomLevel
  layerWidth,        \* style.width of #time-axis, #movements-bars, #connections-svg
  timers,            \* the pending setTimeout callbacks
  resizeTimeout,     \* setupWindowResize's resizeTimeout handle
  resizeLog,         \* the resize events of the current burst, and the redraws they caused
  response,          \* what fetch('./config/movements.json') answers
  configData,        \* config.js module state: the cached document
  panel,             \* what #timeline shows: nothing yet, loading, the error panel, the timeline
  listening          \* whether setupInteractions has bound the event listeners

vars == <<movements, now, yearRange, sorted, axis, bars, barsHeight,
          rendered, passNow, prev, parseArg, parseRet, callArg, callRet,
          connections, currentSelection, barClass, svg, sidebar, zoomLevel,
          layerWidth, timers, resizeTimeout, resizeLog,
          response, configData, panel, listening>>

\* the variables of the direct calls of the axis functions
axisVars == <<callArg, callRet>>

\* the page state behind the layout: selection, edge layer, sidebar, zoom, timers
pageVars == <<connections, currentSelection, barClass, svg, sidebar, zoomLevel,
              layerWidth, timers, resizeTimeout, resizeLog>>

\* the start of the application: the fetched document, its cache, what the
\* container shows and whether the listeners are bound
loadVars == <<response, configData, panel, listening>>

---------------------------------------------------------------------------
(* Bounds *)

MaxMovements == 3
NowYears == {2025, 2026}

---------------------------------------------------------------------------
(* JavaScript number values *)

Fin(n, d) == [k |-> "fin", n |-> n, d |-> d]
Num(n) == Fin(n, 1)
NaN == [k |-> "nan", n |-> 0, d |-> 1]
Infinity == [k |-> "inf", n |-> 1, d |-> 1]
NegInfinity == [k |-> "inf", n |-> -1, d |-> 1]
Undefined == [k |-> "undef", n |-> 0, d |-> 1]

IsNaN(x) == x.k \in {"nan", "undef"}
IsFinite(x) == x.k = "fin"
IsInteger(x) == x.k = "fin" /\ x.d = 1

Abs(i) == IF i < 0 THEN -i ELSE i
Sgn(i) == IF i < 0 THEN -1 ELSE IF i > 0 THEN 1 ELSE 0

RECURSIVE GCD(_, _)
GCD(a, b) == IF b = 0 THEN a ELSE GCD(b, a % b)

Reduce(n, d) ==
  LET s == IF d < 0 THEN -1 ELSE 1
      g == GCD(Abs(n), Abs(d))
  IN Fin((s * n) \div g, (s * d) \div g)

JsNeg(x) == IF IsNaN(x) THEN NaN ELSE [x EXCEPT !.n = -x.n]

JsAdd(a, b) ==
  IF IsNaN(a) \/ IsNaN(b) THEN NaN
  ELSE IF a.k = "inf" /\ b.k = "inf" THEN (IF a.n = b.n THEN a ELSE NaN)
  ELSE IF a.k = "inf" THEN a
  ELSE IF b.k = "inf" THEN b
  ELSE Reduce(a.n * b.d + b.n * a.d, a.d * b.d)

JsSub(a, b) == JsAdd(a, JsNeg(b))

JsMul(a, b) ==
  IF IsNaN(a) \/ IsNaN(b) THEN NaN
  ELSE IF a.k = "inf" \/ b.k = "inf"
       THEN (IF a.n = 0 \/ b.n = 0 THEN NaN
             ELSE IF Sgn(a.n) * Sgn(b.n) > 0 THEN Infinity ELSE NegInfinity)
  ELSE Reduce(a.n * b.n, a.d * b.d)

JsDiv(a, b) ==
  IF IsNaN(a) \/ IsNaN(b) THEN NaN
  ELSE IF a.k = "inf" /\ b.k = "inf" THEN NaN
  ELSE IF a.k = "inf"
       THEN (IF Sgn(a.n) * (IF b.n < 0 THEN -1 ELSE 1) > 0 THEN Infinity ELSE NegInfinity)
  ELSE IF b.k = "inf" THEN Num(0)
  ELSE IF b.n = 0
       THEN (IF a.n = 0 THEN NaN ELSE IF a.n > 0 THEN Infinity ELSE NegInfinity)
  ELSE Reduce(a.n * b.d, a.d * b.n)

\* a < b and a <= b as JavaScript evaluates them: false when either is NaN
JsLt(a, b) ==
  IF IsNaN(a) \/ IsNaN(b) THEN FALSE
  ELSE IF a.k = "inf" THEN a.n < 0 /\ ~(b.k = "inf" /\ b.n < 0)
  ELSE IF b.k = "inf" THEN b.n > 0
  ELSE a.n * b.d < b.n * a.d

JsLe(a, b) == ~IsNaN(a) /\ ~IsNaN(b) /\ (a = b \/ JsLt(a, b))

MathMin(a, b) == IF IsNaN(a) \/ IsNaN(b) THEN NaN ELSE IF JsLt(b, a) THEN b ELSE a
MathMax(a, b) == IF IsNaN(a) \/ IsNaN(b) THEN NaN ELSE IF JsLt(a, b) THEN b ELSE a
MathFloor(x) == IF IsFinite(x) THEN Num(x.n \div x.d) ELSE IF IsNaN(x) THEN NaN ELSE x
MathCeil(x) == IF IsFinite(x) THEN Num(-((-x.n) \div x.d)) ELSE IF IsNaN(x) THEN NaN ELSE x

---------------------------------------------------------------------------
(* JavaScript strings, as sequences of characters *)

Digits == <<"0", "1", "2", "3", "4", "5", "6", "7", "8", "9">>
IsDigit(c) == \E i \in 1..10 : Digits[i] = c
DigitVal(c) == (CHOOSE i \in 1..10 : Digits[i] = c) - 1
IsWhiteSpace(c) == c \in {" ", "\t", "\n"}

\* toLowerCase that folds the ASCII letters only
ToLowerCaseAscii(s) ==
  [i \in 1..Len(s) |->
     CASE s[i] = "P" -> "p" [] s[i] = "R" -> "r" [] s[i] = "E" -> "e"
       [] s[i] = "S" -> "s" [] s[i] = "N" -> "n" [] s[i] = "T" -> "t"
       [] s[i] = "X" -> "x" [] OTHER -> s[i]]

\* String.prototype.toLowerCase on the letters the period strings use
LowerChar(c) ==
  CASE c = "P" -> "p" [] c = "R" -> "r" [] c = "E" -> "e" [] c = "S" -> "s"
    [] c = "N" -> "n" [] c = "T" -> "t" [] c = "É" -> "é" [] c = "X" -> "x"
    [] OTHER -> c
ToLowerCase(s) == [i \in 1..Len(s) |-> LowerChar(s[i])]

\* String.prototype.includes
Includes(s, sub) ==
  \E i \in 1..(Len(s) - Len(sub) + 1) : SubSeq(s, i, i + Len(sub) - 1) = sub

\* String.prototype.split('-'): every separator ends a part
RECURSIVE SplitFrom(_, _, _, _)
SplitFrom(s, i, cur, acc) ==
  IF i > Len(s) THEN Append(acc, cur)
  ELSE IF s[i] = "-" THEN SplitFrom(s, i + 1, <<>>, Append(acc, cur))
  ELSE SplitFrom(s, i + 1, Append(cur, s[i]), acc)
Split(s) == SplitFrom(s, 1, <<>>, <<>>)

\* parseInt(s, 10): leading white space, an optional sign, then the longest
\* run of decimal digits; NaN when there is no digit
RECURSIVE SkipWhiteSpace(_, _)
SkipWhiteSpace(s, i) ==
  IF i <= Len(s) /\ IsWhiteSpace(s[i]) THEN SkipWhiteSpace(s, i + 1) ELSE i

RECURSIVE DigitRun(_, _, _, _)
DigitRun(s, i, acc, seen) ==
  IF i <= Len(s) /\ IsDigit(s[i])
  THEN DigitRun(s, i + 1, acc * 10 + DigitVal(s[i]), TRUE)
  ELSE [value |-> acc, seen |-> seen]

\* parseInt with "|| 0" behind it: 0 where parseInt finds no digit
ParseIntOrZero(s) ==
  LET i == SkipWhiteSpace(s, 1)
      signed == i <= Len(s) /\ s[i] \in {"+", "-"}
      neg == signed /\ s[i] = "-"
      run == DigitRun(s, IF signed THEN i + 1 ELSE i, 0, FALSE)
  IN Num(IF neg THEN -run.value ELSE run.value)

ParseInt(s) ==
  LET i == SkipWhiteSpace(s, 1)
      signed == i <= Len(s) /\ s[i] \in {"+", "-"}
      neg == signed /\ s[i] = "-"
      run == DigitRun(s, IF signed THEN i + 1 ELSE i, 0, FALSE)
  IN IF run.seen THEN Num(IF neg THEN -run.value ELSE run.value) ELSE NaN

---------------------------------------------------------------------------
(* utils.js: parsePeriod.  A period is null or a string. *)

Null == [null |-> TRUE, s |-> <<>>]
Str(s) == [null |-> FALSE, s |-> s]

PresentAccent == <<"p", "r", "é", "s", "e", "n", "t">>
PresentPlain == <<"p", "r", "e", "s", "e", "n", "t">>

parsePeriod(period, year) ==
  IF period.null \/ period.s = <<>>
  THEN [start |-> Num(2000), end |-> Num(2025)]
  ELSE LET parts == Split(period.s)
           start == ParseInt(parts[1])
           second == Len(parts) >= 2 /\ parts[2] # <<>>
       IN IF second /\ (Includes(ToLowerCase(parts[2]), PresentAccent)
                         \/ Includes(ToLowerCase(parts[2]), PresentPlain))
          THEN [start |-> start, end |-> Num(year)]
          ELSE [start |-> start,
                end |-> IF second THEN ParseInt(parts[2]) ELSE JsAdd(start, Num(10))]

---------------------------------------------------------------------------
(* utils.js: getYearRange *)

RECURSIVE RangeFold(_, _, _, _)
RangeFold(ms, year, i, acc) ==
  IF i > Len(ms) THEN acc
  ELSE LET p == parsePeriod(ms[i].period, year)
       IN RangeFold(ms, year, i + 1,
                    [minYear |-> MathMin(acc.minYear, p.start),
                     maxYear |-> MathMax(acc.maxYear, p.end)])

RoundDown(minYear) == JsMul(MathFloor(JsDiv(minYear, Num(10))), Num(10))
RoundUp(maxYear) == JsMul(MathCeil(JsDiv(maxYear, Num(10))), Num(10))

getYearRange(ms, year) ==
  LET r == RangeFold(ms, year, 1, [minYear |-> Infinity, maxYear |-> NegInfinity])
  IN [minYear |-> RoundDown(r.minYear), maxYear |-> RoundUp(r.maxYear)]

---------------------------------------------------------------------------
(* utils.js: assignLanes *)

\* the start years the comparator (a, b) => aPeriod.start - bPeriod.start reads
Starts(ms, year) == [i \in 1..Len(ms) |-> parsePeriod(ms[i].period, year).start]

\* the comparator, on two start years
CompareStart(a, b) == JsSub(a, b)

\* Array.prototype.sort is stable: an element moves left past exactly the
\* elements the comparator puts after it (a result > 0).  Every start the
\* movement lists below carry parses to an integer, so the comparator is
\* consistent and the sorted order is the same on every engine.
\* an unstable insertion: the element also moves left past its equals
RECURSIVE InsertPosUnstable(_, _, _, _)
InsertPosUnstable(starts, acc, j, p) ==
  IF p = 0 \/ JsLt(CompareStart(starts[acc[p]], starts[j]), Num(0)) THEN p
  ELSE InsertPosUnstable(starts, acc, j, p - 1)

RECURSIVE InsertPos(_, _, _, _)
InsertPos(starts, acc, j, p) ==
  IF p = 0 \/ ~JsLt(Num(0), CompareStart(starts[acc[p]], starts[j])) THEN p
  ELSE InsertPos(starts, acc, j, p - 1)

RECURSIVE StableSort(_, _, _)
StableSort(starts, j, acc) ==
  IF j > Len(starts) THEN acc
  ELSE LET p == InsertPos(starts, acc, j, Len(acc))
       IN StableSort(starts, j + 1,
                     SubSeq(acc, 1, p) \o <<j>> \o SubSeq(acc, p + 1, Len(acc)))

\* [...movements].sort(comparator), as the indices of movements in sorted order
ArraySort(ms, year) == StableSort(Starts(ms, year), 1, <<>>)

\* the for loop over lanes: the first lane (1-based) whose end is <= start,
\* 0 when the loop finds none (assignedLane stays -1)
RECURSIVE FirstFreeFrom(_, _, _)
FirstFreeFrom(lanes, start, i) ==
  IF i > Len(lanes) THEN 0
  ELSE IF JsLe(lanes[i], start) THEN i
  ELSE FirstFreeFrom(lanes, start, i + 1)

\* the lane test written with < : touching periods no longer share a lane
RECURSIVE FirstFreeStrictFrom(_, _, _)
FirstFreeStrictFrom(lanes, start, i) ==
  IF i > Len(lanes) THEN 0
  ELSE IF JsLt(lanes[i], start) THEN i
  ELSE FirstFreeStrictFrom(lanes, start, i + 1)

FirstFreeStrict(lanes, start) == FirstFreeStrictFrom(lanes, start, 1)

FirstFree(lanes, start) == FirstFreeFrom(lanes, start, 1)

\* the loop without "lanes[i] = end": a reused lane keeps its first end year
RECURSIVE LaneLoopNoUpdate(_, _, _, _, _, _)
LaneLoopNoUpdate(ms, year, order, k, lanes, out) ==
  IF k > Len(order) THEN out
  ELSE LET idx == order[k]
           p == parsePeriod(ms[idx].period, year)
           f == FirstFree(lanes, p.start)
       IN IF f > 0
          THEN LaneLoopNoUpdate(ms, year, order, k + 1, lanes,
                                [out EXCEPT ![idx].lane = Num(f - 1)])
          ELSE LaneLoopNoUpdate(ms, year, order, k + 1, Append(lanes, p.end),
                                [out EXCEPT ![idx].lane = Num(Len(lanes))])

RECURSIVE LaneLoop(_, _, _, _, _, _)
LaneLoop(ms, year, order, k, lanes, out) ==
  IF k > Len(order) THEN out
  ELSE LET idx == order[k]
           p == parsePeriod(ms[idx].period, year)
           f == FirstFree(lanes, p.start)
       IN IF f > 0
          THEN LaneLoop(ms, year, order, k + 1, [lanes EXCEPT ![f] = p.end],
                        [out EXCEPT ![idx].lane = Num(f - 1)])
          ELSE LaneLoop(ms, year, order, k + 1, Append(lanes, p.end),
                        [out EXCEPT ![idx].lane = Num(Len(lanes))])

\* lanes that outlive the call: every record that already carries a lane
\* has left one occupied
assignLanesStale(ms, year, order) ==
  LaneLoop(ms, year, order, 1,
           [i \in 1..Cardinality({j \in 1..Len(ms) : ms[j].lane # Undefined}) |-> NaN], ms)

\* "return sorted" in place of "return movements": the annotated records in
\* start-year order
assignLanesSorted(ms, year, order) ==
  LET out == LaneLoop(ms, year, order, 1, <<>>, ms)
  IN [k \in 1..Len(ms) |-> out[order[k]]]

assignLanes(ms, year, order) == LaneLoop(ms, year, order, 1, <<>>, ms)

---------------------------------------------------------------------------
(* utils.js: generateDecades, yearToPosition *)

\* the loop written with "year < maxYear": the last decade is left out
RECURSIVE DecadesFromExclusive(_, _)
DecadesFromExclusive(year, maxYear) ==
  IF JsLt(year, maxYear)
  THEN <<year>> \o DecadesFromExclusive(JsAdd(year, Num(10)), maxYear)
  ELSE <<>>

RECURSIVE DecadesFrom(_, _)
DecadesFrom(year, maxYear) ==
  IF JsLe(year, maxYear)
  THEN <<year>> \o DecadesFrom(JsAdd(year, Num(10)), maxYear)
  ELSE <<>>

generateDecades(minYear, maxYear) == DecadesFrom(minYear, maxYear)

\* the position rounded down to a whole percent
yearToPositionWhole(year, minYear, maxYear) ==
  MathFloor(JsMul(JsDiv(JsSub(year, minYear), JsSub(maxYear, minYear)), Num(100)))

yearToPosition(year, minYear, maxYear) ==
  LET range == JsSub(maxYear, minYear)
      offset == JsSub(year, minYear)
  IN JsMul(JsDiv(offset, range), Num(100))

---------------------------------------------------------------------------
(* timeline.js: the render pass *)

LaneHeight == 70
BarHeight == 60

renderTimeAxis(range) ==
  LET decades == generateDecades(range.minYear, range.maxYear)
  IN [i \in 1..Len(decades) |->
        [decade |-> decades[i],
         left |-> yearToPosition(decades[i], range.minYear, range.maxYear)]]

\* m.lane || 0
LaneOrZero(lane) == IF IsNaN(lane) THEN Num(0) ELSE lane

RECURSIVE MaxLaneFrom(_, _, _)
MaxLaneFrom(ms, i, acc) ==
  IF i > Len(ms) THEN acc
  ELSE MaxLaneFrom(ms, i + 1, MathMax(acc, LaneOrZero(ms[i].lane)))

containerHeight(ms) ==
  JsAdd(JsMul(JsAdd(MaxLaneFrom(ms, 1, NegInfinity), Num(1)), Num(LaneHeight)), Num(20))

movementBar(m, range, year) ==
  LET p == parsePeriod(m.period, year)
      startPos == yearToPosition(p.start, range.minYear, range.maxYear)
      endPos == yearToPosition(p.end, range.minYear, range.maxYear)
  IN [id |-> m.id, left |-> startPos, width |-> JsSub(endPos, startPos),
      top |-> JsMul(m.lane, Num(LaneHeight))]

renderMovementBars(ms, range, year) ==
  [i \in 1..Len(ms) |-> movementBar(ms[i], range, year)]

LanesOf(ms) == [i \in 1..Len(ms) |-> ms[i].lane]

NoPass == [valid |-> FALSE, now |-> 0, lanes |-> <<>>, bars |-> <<>>]

---------------------------------------------------------------------------
(* timeline.js and interactions.js: selection, edge layer, timers *)

NoSelection == "(null)"
\* since: ms since the last resize event (-1: none yet; counted up to the
\* resize delay); burst: events of the current burst; draws: redraws it caused
NoResize == [since |-> -1, burst |-> 0, draws |-> 0]

\* configData = null
NoConfig == [loaded |-> FALSE]

\* no fetch has been answered
NoResponse == [ok |-> FALSE, json |-> FALSE]

\* the state before init() has run
LoadNotStarted ==
  /\ response = NoResponse
  /\ configData = NoConfig
  /\ panel = "(initial)"
  /\ listening = FALSE

\* the page before init() has built it
PageNotLoaded ==
  /\ connections = <<>>
  /\ currentSelection = NoSelection
  /\ barClass = <<>>
  /\ svg = <<>>
  /\ sidebar = [hidden |-> TRUE, containerHidden |-> FALSE, toggleActive |-> FALSE,
                shown |-> NoSelection]
  /\ zoomLevel = Undefined
  /\ layerWidth = [timeAxis |-> Undefined, movementBars |-> Undefined,
                   connectionsSvg |-> Undefined]
  /\ timers = {}
  /\ resizeTimeout = 0
  /\ resizeLog = NoResize

\* the delays of the three deferred redraws, in ms
InitDelay == 100
ResizeDelay == 150
ZoomDelay == 50

\* the most callbacks pending at one time
MaxPending == 3

\* setTimeout returns a handle no pending callback and no kept handle carries
FreshHandle ==
  CHOOSE h \in 1..(MaxPending + 2) :
    /\ h # resizeTimeout /\ (\A t \in timers : t.handle # h)
    /\ \A g \in 1..(h - 1) : g = resizeTimeout \/ (\E t \in timers : t.handle = g)

\* a pending callback: its handle, what scheduled it, and the ms left to run
Timer(kind, delay) == [handle |-> FreshHandle, kind |-> kind, left |-> delay]

\* findMovementById: the first record with that id, as its index; 0 for null
findMovementById(ms, id) ==
  IF \E i \in 1..Len(ms) : ms[i].id = id
  THEN CHOOSE i \in 1..Len(ms) : ms[i].id = id /\ \A j \in 1..(i - 1) : ms[j].id # id
  ELSE 0

\* document.querySelector('[data-id="..."]'): the first bar with that id, 0 for null
querySelectorBar(bs, id) ==
  IF \E b \in 1..Len(bs) : bs[b].id = id
  THEN CHOOSE b \in 1..Len(bs) : bs[b].id = id /\ \A c \in 1..(b - 1) : bs[c].id # id
  ELSE 0

\* whether an edge is drawn active: it touches the current selection
TouchesSelection(from, to, sel) == sel # NoSelection /\ (from = sel \/ to = sel)

\* an edge layer that never marks what it draws
EdgePairPlain(from, conn, sel) ==
  LET e == [from |-> from, to |-> conn.to, type |-> conn.type, active |-> FALSE]
  IN << [tag |-> "path"] @@ e, [tag |-> "polygon"] @@ e >>

\* the path and the arrowhead drawConnections appends for one connection
EdgePair(from, conn, sel) ==
  LET e == [from |-> from, to |-> conn.to, type |-> conn.type,
            active |-> TouchesSelection(from, conn.to, sel)]
  IN << [tag |-> "path"] @@ e, [tag |-> "polygon"] @@ e >>

\* connections.forEach of one movement: entries whose bars are missing are skipped
RECURSIVE DrawMovement(_, _, _, _, _)
DrawMovement(from, conns, j, bs, sel) ==
  IF j > Len(conns) THEN <<>>
  ELSE (IF querySelectorBar(bs, from) = 0 \/ querySelectorBar(bs, conns[j].to) = 0
        THEN <<>>
        ELSE EdgePair(from, conns[j], sel))
       \o DrawMovement(from, conns, j + 1, bs, sel)

\* a draw pass that stops at the first connection whose bar is missing
RECURSIVE DrawMovementAbort(_, _, _, _, _)
DrawMovementAbort(from, conns, j, bs, sel) ==
  IF j > Len(conns) THEN <<>>
  ELSE IF querySelectorBar(bs, from) = 0 \/ querySelectorBar(bs, conns[j].to) = 0
       THEN <<>>
       ELSE EdgePair(from, conns[j], sel) \o DrawMovementAbort(from, conns, j + 1, bs, sel)

\* movements.forEach of drawConnections, over the records list (indices)
RECURSIVE DrawFrom(_, _, _, _, _, _)
DrawFrom(list, k, ms, conns, bs, sel) ==
  IF k > Len(list) THEN <<>>
  ELSE DrawMovement(ms[list[k]].id, conns[list[k]], 1, bs, sel)
       \o DrawFrom(list, k + 1, ms, conns, bs, sel)

\* a draw pass that appends to what the layer already holds
drawConnectionsAppend(old, list, ms, conns, bs, sel) ==
  old \o DrawFrom(list, 1, ms, conns, bs, sel)

\* drawConnections(movements): svg.innerHTML = '' and one pair per connection
drawConnections(old, list, ms, conns, bs, sel) == DrawFrom(list, 1, ms, conns, bs, sel)

\* getMovements(): every record of the configuration, as indices
AllRecords(ms) == [i \in 1..Len(ms) |-> i]

\* showMovementDetails' list: the record findMovementById gives for each bar
RecordsOfBars(ms, bs) ==
  LET found == [b \in 1..Len(bs) |-> findMovementById(ms, bs[b].id)]
  IN SelectSeq(found, LAMBDA i : i # 0)

\* the lines.forEach and arrowheads.forEach of highlightConnections that never
\* look at the selection when they unmark
highlightEdgesAny(edges, id, highlight, sel) ==
  [k \in 1..Len(edges) |->
     IF edges[k].from = id \/ edges[k].to = id
     THEN [edges[k] EXCEPT !.active = highlight]
     ELSE edges[k]]

\* the lines.forEach and arrowheads.forEach of highlightConnections
highlightEdges(edges, id, highlight, sel) ==
  [k \in 1..Len(edges) |->
     IF edges[k].from = id \/ edges[k].to = id
     THEN IF highlight
          THEN [edges[k] EXCEPT !.active = TRUE]
          ELSE IF sel = NoSelection \/ (edges[k].from # sel /\ edges[k].to # sel)
               THEN [edges[k] EXCEPT !.active = FALSE]
               ELSE edges[k]
     ELSE edges[k]]

\* the source bar of the line, whichever end id is
ConnectedIdSource(e, id) == e.from

\* the bar at the other end of a line that touches id
ConnectedId(e, id) == IF e.from = id THEN e.to ELSE e.from

\* what highlightConnections does to the bars' highlighted class
highlightBars(cls, bs, edges, id, highlight, sel) ==
  [b \in 1..Len(cls) |->
     IF highlight
     THEN IF \E k \in 1..Len(edges) :
               /\ edges[k].tag = "path"
               /\ (edges[k].from = id \/ edges[k].to = id)
               /\ querySelectorBar(bs, ConnectedId(edges[k], id)) = b
          THEN [cls[b] EXCEPT !.highlighted = TRUE]
          ELSE cls[b]
     ELSE IF bs[b].id # sel
          THEN [cls[b] EXCEPT !.highlighted = FALSE]
          ELSE cls[b]]

\* the relation kinds renderConnectionsSection has a label for
KnownKinds == {"influence", "reaction", "evolution", "related"}

\* renderConnectionsSection reads typeLabels[type].icon: a TypeError for a
\* non-empty list under any other key
SectionThrows(conns) == \E j \in 1..Len(conns) : conns[j].type \notin KnownKinds

\* a selection that marks the bar without unmarking the others
selectBarsAdd(cls, bs, id) ==
  [b \in 1..Len(cls) |-> [cls[b] EXCEPT !.selected = (cls[b].selected \/ bs[b].id = id)]]

\* the selected class after showMovementDetails(id)
selectBars(cls, bs, id) ==
  [b \in 1..Len(cls) |-> [cls[b] EXCEPT !.selected = (bs[b].id = id)]]

\* a sidebar shown without marking the toggle button
showSidebarKeepToggle(sb) == [sb EXCEPT !.hidden = FALSE, !.containerHidden = FALSE]

\* showMovementDetails: the sidebar is shown and the toggle button marked
showSidebar(sb) ==
  [sb EXCEPT !.hidden = FALSE, !.containerHidden = FALSE, !.toggleActive = TRUE]

\* the click listener of the toggle button
toggleSidebar(sb) ==
  IF sb.toggleActive
  THEN [sb EXCEPT !.hidden = TRUE, !.containerHidden = TRUE, !.toggleActive = FALSE]
  ELSE [sb EXCEPT !.hidden = FALSE, !.containerHidden = FALSE, !.toggleActive = TRUE]

\* a clamp with no lower limit
clampZoomUpper(newZoom) == MathMin(Num(8), newZoom)

\* clearTimeout that cancels nothing
clearTimeoutNone(ts, handle) == ts

\* a clear that drops every pending callback
clearTimeoutAll(ts, handle) == {}

\* clearTimeout(handle)
clearTimeout(ts, handle) == {t \in ts : t.handle # handle}

\* Math.max(minZoom, Math.min(maxZoom, newZoom))
clampZoom(newZoom) == MathMax(Fin(1, 2), MathMin(Num(8), newZoom))

\* the three widths updateZoom writes
zoomWidths(level) ==
  [timeAxis |-> JsMul(Num(300), level), movementBars |-> JsMul(Num(300), level),
   connectionsSvg |-> JsMul(Num(300), level)]

\* the step of the clock, and the most resize events in one burst
ClockStep == 50
MaxBurst == 3

\* a callback is due: it runs before anything that happens later
TimerDue == \E t \in timers : t.left <= 0

\* handlers of the page leave the layout of the last render pass alone
LayoutResetRange ==
  /\ yearRange' = [minYear |-> Num(1800), maxYear |-> Num(2030)]
  /\ UNCHANGED <<movements, now, sorted, axis, bars, barsHeight, rendered,
                 passNow, prev, loadVars, parseArg, parseRet, axisVars>>

LayoutUnchanged ==
  UNCHANGED <<movements, now, yearRange, sorted, axis, bars, barsHeight, rendered,
              passNow, prev, loadVars, parseArg, parseRet, axisVars>>

\* renderTimeline(movements).  The clock does not advance inside one pass.
RenderTimeline ==
  /\ sorted' = ArraySort(movements, now)
  /\ movements' = assignLanes(movements, now, sorted')
  /\ yearRange' = getYearRange(movements', now)
  /\ axis' = renderTimeAxis(yearRange')
  /\ bars' = renderMovementBars(movements', yearRange', now)
  /\ barsHeight' = containerHeight(movements')
  /\ prev' = IF rendered
             THEN [valid |-> TRUE, now |-> passNow,
                   lanes |-> LanesOf(movements), bars |-> bars]
             ELSE NoPass
  /\ rendered' = TRUE
  /\ passNow' = now
  /\ Cardinality(timers) < MaxPending
  /\ barClass' = [b \in 1..Len(movements) |-> [selected |-> FALSE, highlighted |-> FALSE]]
  /\ svg' = <<>>
  /\ sidebar' = [sidebar EXCEPT !.hidden = TRUE, !.containerHidden = TRUE,
                                !.shown = NoSelection]
  /\ layerWidth' = [timeAxis |-> Undefined, movementBars |-> Undefined,
                    connectionsSvg |-> Undefined]
  /\ timers' = timers \cup {Timer("init", InitDelay)}
  /\ UNCHANGED <<now, loadVars, parseArg, parseRet, axisVars, connections,
                 currentSelection,
                 zoomLevel, resizeTimeout, resizeLog>>

\* the calendar year changes
Tick ==
  /\ now + 1 \in NowYears
  /\ now' = now + 1
  /\ UNCHANGED <<movements, yearRange, sorted, axis, bars, barsHeight,
                 rendered, passNow, prev, loadVars, parseArg, parseRet, axisVars, pageVars>>

---------------------------------------------------------------------------
(* config.js and validation.js: the document, its validation and its cache *)

\* a record of movements.json with every required field in place
RawRecord(id, period, conns) ==
  [id |-> id, title |-> "title", period |-> period, year |-> Num(1900),
   description |-> "description",
   context |-> [given |-> FALSE, fields |-> {}],
   authors |-> << [name |-> "name", gender |-> "F"] >>,
   works |-> << "work" >>,
   connections |-> conns]

\* the document: data.movements, and whether it is an array at all
Document(ms) == [isArray |-> TRUE, movements |-> ms]

RECURSIVE Flatten(_)
Flatten(ss) == IF ss = <<>> THEN <<>> ELSE Head(ss) \o Flatten(Tail(ss))

\* errors.push(..) under a condition
PushIf(cond, error) == IF cond THEN <<error>> ELSE <<>>

\* !value, for a period string
FalsyString(p) == p.null \/ p.s = <<>>

RequiredContextFields == <<"historical", "philosophical", "literary", "scientific", "themes">>

\* the errors of one author
AuthorErrors(author) ==
  PushIf(author.name = "", "author: missing 'name'")
  \o PushIf(author.gender \notin {"M", "F"}, "author: 'gender' must be 'M' or 'F'")

\* the first pass over one record; ids holds the ids seen before it
RecordErrors(m, ids) ==
  (IF m.id = "" THEN <<"missing 'id' field">>
   ELSE PushIf(m.id \in ids, "Duplicate movement ID"))
  \o PushIf(m.title = "", "missing 'title' field")
  \o PushIf(FalsyString(m.period), "missing 'period' field")
  \o PushIf(m.year.k = "undef", "'year' must be a number")
  \o PushIf(m.description = "", "missing 'description' field")
  \o (IF m.context.given
      THEN Flatten([f \in 1..Len(RequiredContextFields) |->
                     PushIf(RequiredContextFields[f] \notin m.context.fields,
                            "missing context field")])
      ELSE <<>>)
  \o (IF Len(m.authors) = 0 THEN <<"must have at least one author">>
      ELSE Flatten([a \in 1..Len(m.authors) |-> AuthorErrors(m.authors[a])]))
  \o PushIf(Len(m.works) = 0, "must have at least one work")

\* the ids the first pass has added to its set after the first k records
IdsAfter(ms, k) == {ms[i].id : i \in {j \in 1..k : ms[j].id # ""}}

FirstPass(ms) == Flatten([i \in 1..Len(ms) |-> RecordErrors(ms[i], IdsAfter(ms, i - 1))])

\* the kinds whose connections the second pass looks at
connectionTypes == <<"influence", "reaction", "evolution", "related">>

\* the errors of one connection
ConnectionErrors(conn, ids) ==
  (IF conn.to = "" THEN <<"connection missing 'to' field">>
   ELSE PushIf(conn.to \notin ids, "invalid connection (no such movement)"))
  \o PushIf(conn.desc = "", "connection missing 'desc' field")

\* the second pass over one record
ReferenceErrors(m, ids) ==
  Flatten([k \in 1..Len(connectionTypes) |->
            LET ofType == SelectSeq(m.connections, LAMBDA c : c.type = connectionTypes[k])
            IN Flatten([j \in 1..Len(ofType) |-> ConnectionErrors(ofType[j], ids)])])

SecondPass(ms) ==
  Flatten([i \in 1..Len(ms) |-> ReferenceErrors(ms[i], IdsAfter(ms, Len(ms)))])

\* validateMovementData(data.movements)
validateMovementData(doc) ==
  IF ~doc.isArray THEN <<"Movements data must be an array">>
  ELSE FirstPass(doc.movements) \o SecondPass(doc.movements)

\* a loadConfig that caches the document whatever the validation says
loadConfigUnchecked(resp, cache) ==
  IF ~resp.ok \/ ~resp.json THEN [threw |-> TRUE, configData |-> cache]
  ELSE [threw |-> Len(validateMovementData(resp.data)) > 0,
        configData |-> [loaded |-> TRUE, data |-> resp.data]]

\* loadConfig(): what it leaves in the cache, and whether it threw
loadConfig(resp, cache) ==
  IF ~resp.ok \/ ~resp.json THEN [threw |-> TRUE, configData |-> cache]
  ELSE IF Len(validateMovementData(resp.data)) > 0
       THEN [threw |-> TRUE, configData |-> cache]
       ELSE [threw |-> FALSE, configData |-> [loaded |-> TRUE, data |-> resp.data]]

\* getMovements()
getMovements(cache) == IF ~cache.loaded THEN <<>> ELSE cache.data.movements

\* the part of the records the layout reads, and their connections as
\* (type, to) entries in file order
LayoutRecords(raw) ==
  [i \in 1..Len(raw) |-> [id |-> raw[i].id, period |-> raw[i].period, lane |-> Undefined]]
ConnectionEntries(raw) ==
  [i \in 1..Len(raw) |->
     [j \in 1..Len(raw[i].connections) |->
        [type |-> raw[i].connections[j].type, to |-> raw[i].connections[j].to]]]

---------------------------------------------------------------------------
(* Inputs *)

\* String(n) for n >= 0
RECURSIVE Fmt(_)
Fmt(n) == IF n < 10 THEN <<Digits[n + 1]>> ELSE Fmt(n \div 10) \o <<Digits[(n % 10) + 1]>>

Dash == <<"-">>
Period(a, b) == Fmt(a) \o Dash \o Fmt(b)

\* the periods the movement lists are drawn from: the spec's scenarios
\* (touching, overlapping, open-ended), a period written backwards, a
\* zero-length one and one whose end does not parse
LayoutPeriods ==
  { Period(1818, 1920), Period(1920, 1960), Period(1950, 1980),
    Fmt(2000) \o Dash \o PresentAccent,
    Period(1960, 1920), Period(1950, 1950),
    Fmt(1920) \o Dash \o <<"x">> }

Ids == <<"m1", "m2", "m3", "m4", "m5", "m6">>

\* validateMovementData passed: ids are distinct and every period is a
\* non-empty string; no record carries a lane yet
MovementLists ==
  UNION { { [i \in 1..n |-> [id |-> Ids[i], period |-> Str(ps[i]), lane |-> Undefined]] :
            ps \in [1..n -> LayoutPeriods] } : n \in 0..MaxMovements }

NoArgs == [year1 |-> Undefined, year2 |-> Undefined,
           minYear |-> Undefined, maxYear |-> Undefined]
NoAxisCall == [fn |-> "none"]

NoCall == [called |-> FALSE, year |-> 0, start |-> Undefined, end |-> Undefined]

Init ==
  /\ movements \in MovementLists
  /\ now \in NowYears
  /\ yearRange = [minYear |-> Num(1800), maxYear |-> Num(2030)]
  /\ sorted = <<>>
  /\ axis = <<>>
  /\ bars = <<>>
  /\ barsHeight = Undefined
  /\ rendered = FALSE
  /\ passNow = 0
  /\ prev = NoPass
  /\ parseArg = Null
  /\ parseRet = NoCall
  /\ callArg = NoArgs
  /\ callRet = NoAxisCall
  /\ PageNotLoaded
  /\ LoadNotStarted

Next == RenderTimeline \/ Tick

Spec == Init /\ [][Next]_vars

---------------------------------------------------------------------------
(* parsePeriod called on its own *)

ParseYears == {0, 7, 1818, 1920, 2000, 2025}

\* spellings of the open end: both words, in lower, upper and mixed case,
\* alone and inside a longer second part
PresentSpellings ==
  { PresentAccent, PresentPlain,
    <<"P", "r", "é", "s", "e", "n", "t">>, <<"P", "R", "É", "S", "E", "N", "T">>,
    <<"P", "R", "E", "S", "E", "N", "T">>, <<"p", "R", "e", "S", "e", "N", "t">>,
    <<" ">> \o PresentAccent, <<"à", " ">> \o PresentAccent,
    PresentPlain \o <<" ", "d", "a", "y">> }

\* year parts parseInt finds no digit at the head of
UnparseableParts == { <<"x">>, <<"x", "i", "x">>, <<"?">>, <<"c", ".", "1", "9", "2", "0">> }

\* year parts parseInt reads a prefix of
PrefixParts == { <<" ">> \o Fmt(1920), Fmt(1920) \o <<"s">>, Fmt(192) \o <<"?">> }

FirstParts == {Fmt(y) : y \in ParseYears} \cup UnparseableParts \cup PrefixParts \cup {<<>>}
SecondParts == FirstParts \cup PresentSpellings \cup {<<"p", "r", "e", "s">>}

ParseInputs ==
  {Null} \cup {Str(a) : a \in FirstParts}
         \cup {Str(a \o Dash \o b) : a \in FirstParts, b \in SecondParts}
         \cup {Str(Period(1920, 1960) \o Dash \o b) : b \in SecondParts}

InitParse ==
  /\ parseArg \in ParseInputs
  /\ parseRet = NoCall
  /\ now \in NowYears
  /\ movements = <<>>
  /\ yearRange = [minYear |-> Num(1800), maxYear |-> Num(2030)]
  /\ sorted = <<>>
  /\ axis = <<>>
  /\ bars = <<>>
  /\ barsHeight = Undefined
  /\ rendered = FALSE
  /\ passNow = 0
  /\ prev = NoPass
  /\ callArg = NoArgs
  /\ callRet = NoAxisCall
  /\ PageNotLoaded
  /\ LoadNotStarted

\* parsePeriod(parseArg)
CallParsePeriod ==
  /\ parseRet' = [called |-> TRUE, year |-> now,
                  start |-> parsePeriod(parseArg, now).start,
                  end |-> parsePeriod(parseArg, now).end]
  /\ UNCHANGED <<movements, now, yearRange, sorted, axis, bars, barsHeight,
                 rendered, passNow, prev, loadVars, parseArg, axisVars, pageVars>>

NextParse == CallParsePeriod \/ Tick

SpecParse == InitParse /\ [][NextParse]_vars

---------------------------------------------------------------------------
(* yearToPosition and generateDecades called on their own *)

\* range ends: decade-aligned and not, equal, and in either order
RangeInputs == {Num(1810), Num(1815), Num(1820), Num(1950), Num(2025), Num(2030)}

\* years inside, on the ends of and outside those ranges, one of them
\* fractional (1910.5)
YearInputs ==
  {Num(1800), Num(1810), Num(1815), Num(1910), Fin(3821, 2), Num(2030), Num(2040)}

AxisInputs ==
  [year1 : YearInputs, year2 : YearInputs, minYear : RangeInputs, maxYear : RangeInputs]

InitAxis ==
  /\ callArg \in AxisInputs
  /\ callRet = NoAxisCall
  /\ PageNotLoaded
  /\ LoadNotStarted
  /\ parseArg = Null
  /\ parseRet = NoCall
  /\ now \in NowYears
  /\ movements = <<>>
  /\ yearRange = [minYear |-> Num(1800), maxYear |-> Num(2030)]
  /\ sorted = <<>>
  /\ axis = <<>>
  /\ bars = <<>>
  /\ barsHeight = Undefined
  /\ rendered = FALSE
  /\ passNow = 0
  /\ prev = NoPass

\* yearToPosition(year1, minYear, maxYear) and yearToPosition(year2, minYear, maxYear)
CallYearToPosition ==
  /\ callRet' = [fn |-> "yearToPosition",
                 pos1 |-> yearToPosition(callArg.year1, callArg.minYear, callArg.maxYear),
                 pos2 |-> yearToPosition(callArg.year2, callArg.minYear, callArg.maxYear)]
  /\ UNCHANGED <<movements, now, yearRange, sorted, axis, bars, barsHeight,
                 rendered, passNow, prev, loadVars, parseArg, parseRet, callArg, pageVars>>

\* generateDecades(minYear, maxYear)
CallGenerateDecades ==
  /\ callRet' = [fn |-> "generateDecades",
                 decades |-> generateDecades(callArg.minYear, callArg.maxYear)]
  /\ UNCHANGED <<movements, now, yearRange, sorted, axis, bars, barsHeight,
                 rendered, passNow, prev, loadVars, parseArg, parseRet, callArg, pageVars>>

NextAxis == CallYearToPosition \/ CallGenerateDecades

SpecAxis == InitAxis /\ [][NextAxis]_vars

---------------------------------------------------------------------------
(* The page after init(): clicks, hovers, resizes, zooms and timers *)

\* the records of the configuration
PageRecords ==
  << [id |-> "m1", period |-> Str(Period(1818, 1920)), lane |-> Undefined],
     [id |-> "m2", period |-> Str(Period(1920, 1960)), lane |-> Undefined],
     [id |-> "m3", period |-> Str(Period(1950, 1980)), lane |-> Undefined] >>

\* the connections the configurations are drawn from, in file order: the four
\* documented kinds, one connection written twice, a self-reference, and two
\* under a key validateMovementData does not look at, one of them to an id
\* no record has
ConnectionPool ==
  << [from |-> 1, type |-> "influence", to |-> "m2"],
     [from |-> 1, type |-> "influence", to |-> "m2"],
     [from |-> 1, type |-> "inspired", to |-> "m9"],
     [from |-> 2, type |-> "reaction", to |-> "m1"],
     [from |-> 2, type |-> "related", to |-> "m3"],
     [from |-> 3, type |-> "evolution", to |-> "m3"],
     [from |-> 3, type |-> "inspired", to |-> "m1"] >>

\* movement.connections of record i, for the chosen pool entries
RECURSIVE ConnectionsOf(_, _, _)
ConnectionsOf(i, chosen, k) ==
  IF k > Len(ConnectionPool) THEN <<>>
  ELSE (IF k \in chosen /\ ConnectionPool[k].from = i
        THEN << [type |-> ConnectionPool[k].type, to |-> ConnectionPool[k].to] >>
        ELSE <<>>)
       \o ConnectionsOf(i, chosen, k + 1)

\* the configurations: no connection, a mutual pair, a connection written
\* twice, a dangling target beside a known kind, a self-reference beside an
\* undocumented kind, and a chain
ChosenConnections == { {}, {1, 4}, {1, 2}, {3, 5}, {6, 7}, {1, 5, 6} }

PageConnections ==
  { [i \in 1..Len(PageRecords) |-> ConnectionsOf(i, chosen, 1)] : chosen \in ChosenConnections }

\* the document behind a page configuration
PageDocument(conns) ==
  Document([i \in 1..Len(PageRecords) |->
              RawRecord(PageRecords[i].id, PageRecords[i].period,
                        [j \in 1..Len(conns[i]) |->
                           [type |-> conns[i][j].type, to |-> conns[i][j].to,
                            desc |-> "desc"]])])

\* init(): renderTimeline(getMovements()), then setupInteractions(), whose
\* setupZoomControls ends with updateZoom(4.0)
InitPage ==
  /\ now = 2025
  /\ sorted = ArraySort(PageRecords, now)
  /\ movements = assignLanes(PageRecords, now, sorted)
  /\ yearRange = getYearRange(movements, now)
  /\ axis = renderTimeAxis(yearRange)
  /\ bars = renderMovementBars(movements, yearRange, now)
  /\ barsHeight = containerHeight(movements)
  /\ rendered = TRUE
  /\ passNow = now
  /\ prev = NoPass
  /\ parseArg = Null
  /\ parseRet = NoCall
  /\ callArg = NoArgs
  /\ callRet = NoAxisCall
  /\ connections \in PageConnections
  /\ currentSelection = NoSelection
  /\ barClass = [b \in 1..Len(PageRecords) |-> [selected |-> FALSE, highlighted |-> FALSE]]
  /\ svg = <<>>
  /\ sidebar = [hidden |-> TRUE, containerHidden |-> TRUE, toggleActive |-> FALSE,
                shown |-> NoSelection]
  /\ zoomLevel = clampZoom(Num(4))
  /\ layerWidth = zoomWidths(clampZoom(Num(4)))
  /\ timers = { [handle |-> 1, kind |-> "init", left |-> InitDelay],
                [handle |-> 2, kind |-> "zoom", left |-> ZoomDelay] }
  /\ resizeTimeout = 0
  /\ resizeLog = NoResize
  /\ response = [ok |-> TRUE, json |-> TRUE, data |-> PageDocument(connections)]
  /\ configData = [loaded |-> TRUE, data |-> response.data]
  /\ panel = "timeline"
  /\ listening = TRUE

BarIds == {bars[b].id : b \in 1..Len(bars)}

\* showMovementDetails(id)
showMovementDetails(id) ==
  LET i == findMovementById(movements, id)
  IN /\ LayoutUnchanged
     /\ UNCHANGED <<connections, zoomLevel, layerWidth, timers, resizeTimeout, resizeLog>>
     /\ IF i = 0
        THEN UNCHANGED <<currentSelection, barClass, svg, sidebar>>
        ELSE /\ currentSelection' = id
             /\ barClass' = selectBars(barClass, bars, id)
             /\ IF SectionThrows(connections[i])
                THEN /\ sidebar' = showSidebar(sidebar)
                     /\ svg' = svg
                ELSE /\ sidebar' = [showSidebar(sidebar) EXCEPT !.shown = id]
                     /\ svg' = drawConnections(svg, RecordsOfBars(movements, bars),
                                               movements, connections, bars, id)

\* a click on a movement bar
ClickBar ==
  /\ ~TimerDue
  /\ \E id \in BarIds : showMovementDetails(id)

\* a click on a connection link of the sidebar
ClickLink ==
  /\ ~TimerDue
  /\ sidebar.shown # NoSelection /\ ~sidebar.hidden
  /\ \E j \in 1..Len(connections[findMovementById(movements, sidebar.shown)]) :
       showMovementDetails(connections[findMovementById(movements, sidebar.shown)][j].to)

\* showMovementDetails called with any id, one no movement has included
UnknownIds == {"m9"}
CallShowMovementDetails ==
  /\ ~TimerDue
  /\ \E id \in BarIds \cup UnknownIds : showMovementDetails(id)

\* a click on the sidebar toggle button
ToggleSidebar ==
  /\ ~TimerDue
  /\ sidebar' = toggleSidebar(sidebar)
  /\ LayoutUnchanged
  /\ UNCHANGED <<connections, currentSelection, barClass, svg, zoomLevel, layerWidth,
                 timers, resizeTimeout, resizeLog>>

\* highlightConnections(id, highlight), from mouseenter / mouseleave on a bar
HighlightConnections(id, highlight) ==
  /\ svg' = highlightEdges(svg, id, highlight, currentSelection)
  /\ barClass' = highlightBars(barClass, bars, svg, id, highlight, currentSelection)
  /\ LayoutUnchanged
  /\ UNCHANGED <<connections, currentSelection, sidebar, zoomLevel, layerWidth, timers,
                 resizeTimeout, resizeLog>>

Hover == ~TimerDue /\ \E id \in BarIds : HighlightConnections(id, TRUE)

Unhover == ~TimerDue /\ \E id \in BarIds : HighlightConnections(id, FALSE)

\* the resize listener: clearTimeout(resizeTimeout), then a new 150 ms callback
Resize ==
  LET kept == clearTimeout(timers, resizeTimeout)
      inBurst == resizeLog.since >= 0 /\ resizeLog.since < ResizeDelay
  IN /\ ~TimerDue
     /\ Cardinality(kept) < MaxPending
     /\ inBurst => resizeLog.burst < MaxBurst
     /\ timers' = kept \cup {Timer("resize", ResizeDelay)}
     /\ resizeTimeout' = FreshHandle
     /\ resizeLog' = [since |-> 0,
                      burst |-> IF inBurst THEN resizeLog.burst + 1 ELSE 1,
                      draws |-> IF inBurst THEN resizeLog.draws ELSE 0]
     /\ LayoutUnchanged
     /\ UNCHANGED <<connections, currentSelection, barClass, svg, sidebar, zoomLevel,
                    layerWidth>>

\* updateZoom(newZoom)
updateZoom(newZoom) ==
  /\ ~TimerDue
  /\ Cardinality(timers) < MaxPending
  /\ zoomLevel' = clampZoom(newZoom)
  /\ layerWidth' = zoomWidths(zoomLevel')
  /\ timers' = timers \cup {Timer("zoom", ZoomDelay)}
  /\ LayoutUnchanged
  /\ UNCHANGED <<connections, currentSelection, barClass, svg, sidebar, resizeTimeout,
                 resizeLog>>

\* the zoom buttons and their keyboard shortcuts
ZoomIn == updateZoom(JsAdd(zoomLevel, Fin(1, 2)))
ZoomOut == updateZoom(JsSub(zoomLevel, Fin(1, 2)))
ZoomReset == updateZoom(Num(4))

\* the callback of every deferred redraw: drawConnections(getMovements())
RunTimer(t) ==
  /\ t.left <= 0
  /\ timers' = timers \ {t}
  /\ svg' = drawConnections(svg, AllRecords(movements), movements, connections, bars,
                            currentSelection)
  /\ resizeLog' = IF t.kind = "resize"
                  THEN [resizeLog EXCEPT !.draws = resizeLog.draws + 1]
                  ELSE resizeLog
  /\ LayoutUnchanged
  /\ UNCHANGED <<connections, currentSelection, barClass, sidebar, zoomLevel,
                 layerWidth, resizeTimeout>>

FireTimer == \E t \in timers : RunTimer(t)

\* ms since the last resize event, after one more step of the clock
SinceAfterStep(since) ==
  IF since < 0 THEN since
  ELSE IF since + ClockStep >= ResizeDelay THEN ResizeDelay ELSE since + ClockStep

\* time passes, unless a callback is due
Advance ==
  /\ ~TimerDue
  /\ timers' = { [t EXCEPT !.left = t.left - ClockStep] : t \in timers }
  /\ resizeLog' = [resizeLog EXCEPT !.since = SinceAfterStep(resizeLog.since)]
  /\ LayoutUnchanged
  /\ UNCHANGED <<connections, currentSelection, barClass, svg, sidebar, zoomLevel,
                 layerWidth, resizeTimeout>>

\* the edge layer: clicks, hovers, resizes and the deferred redraws
NextEdges == ClickBar \/ ClickLink \/ Hover \/ Unhover \/ Resize \/ FireTimer \/ Advance

SpecEdges == InitPage /\ [][NextEdges]_vars

\* the selection and the sidebar: clicks on bars, links and the toggle
\* button, direct calls of showMovementDetails, hovers and the deferred redraws
NextSelect ==
  \/ ClickBar \/ ClickLink \/ CallShowMovementDetails \/ ToggleSidebar
  \/ Hover \/ Unhover \/ FireTimer \/ Advance

SpecSelect == InitPage /\ [][NextSelect]_vars

\* the deferred redraws: resizes, zoom changes, callbacks and the clock
NextTimers == Resize \/ ZoomIn \/ ZoomOut \/ ZoomReset \/ FireTimer \/ Advance

SpecTimers == InitPage /\ [][NextTimers]_vars

\* callbacks that are due do run, and time does pass
SpecTimersFair == SpecTimers /\ WF_vars(FireTimer) /\ WF_vars(Advance)

---------------------------------------------------------------------------
(* The start of the application: init() of main.js *)

\* the first record of the documents: complete, with a forward reference, a
\* self-reference, a target no record has under a documented kind and under
\* an undocumented one, and one defect of each kind validateMovementData
\* looks for
FirstRecord == RawRecord("m1", Str(Period(1818, 1920)), <<>>)
Conn(type, to) == [type |-> type, to |-> to, desc |-> "desc"]
FirstRecords ==
  { FirstRecord,
    [FirstRecord EXCEPT !.connections = << Conn("influence", "m2") >>],
    [FirstRecord EXCEPT !.connections = << Conn("evolution", "m1") >>],
    [FirstRecord EXCEPT !.connections = << Conn("related", "m9") >>],
    [FirstRecord EXCEPT !.connections = << Conn("inspired", "m9") >>],
    [FirstRecord EXCEPT !.connections = << Conn("influence", "") >>],
    [FirstRecord EXCEPT !.connections = << [type |-> "reaction", to |-> "m1", desc |-> ""] >>],
    [FirstRecord EXCEPT !.id = ""],
    [FirstRecord EXCEPT !.title = ""],
    [FirstRecord EXCEPT !.period = Null],
    [FirstRecord EXCEPT !.year = Undefined],
    [FirstRecord EXCEPT !.description = ""],
    [FirstRecord EXCEPT !.context = [given |-> TRUE, fields |-> {"historical", "themes"}]],
    [FirstRecord EXCEPT !.context = [given |-> TRUE,
        fields |-> {"historical", "philosophical", "literary", "scientific", "themes"}]],
    [FirstRecord EXCEPT !.authors = <<>>],
    [FirstRecord EXCEPT !.authors = << [name |-> "name", gender |-> "X"] >>],
    [FirstRecord EXCEPT !.authors = << [name |-> "", gender |-> "M"] >>],
    [FirstRecord EXCEPT !.works = <<>>] }

\* the second record: complete, referring back, or repeating the first id
SecondRecord == RawRecord("m2", Str(Period(1920, 1960)), <<>>)
SecondRecords ==
  { SecondRecord,
    [SecondRecord EXCEPT !.connections = << Conn("reaction", "m1") >>],
    [SecondRecord EXCEPT !.id = "m1"] }

\* the documents: no record, one, two, and a movements entry that is no array
Documents ==
  {Document(<<>>), [isArray |-> FALSE, movements |-> <<>>]}
  \cup {Document(<<a>>) : a \in FirstRecords}
  \cup {Document(<<a, b>>) : a \in FirstRecords, b \in SecondRecords}

\* what the fetch can answer: a status that is not ok, a body that is no
\* JSON, or a document
Responses == {[ok |-> o, json |-> j, data |-> d] : o \in BOOLEAN, j \in BOOLEAN, d \in Documents}

InitLoad ==
  /\ movements = <<>>
  /\ now = 2025
  /\ yearRange = [minYear |-> Num(1800), maxYear |-> Num(2030)]
  /\ sorted = <<>>
  /\ axis = <<>>
  /\ bars = <<>>
  /\ barsHeight = Undefined
  /\ rendered = FALSE
  /\ passNow = 0
  /\ prev = NoPass
  /\ parseArg = Null
  /\ parseRet = NoCall
  /\ callArg = NoArgs
  /\ callRet = NoAxisCall
  /\ PageNotLoaded
  /\ response \in Responses
  /\ configData = NoConfig
  /\ panel = "(initial)"
  /\ listening = FALSE

\* init() up to its first await: showLoading()
showLoading ==
  /\ panel = "(initial)"
  /\ panel' = "loading"
  /\ UNCHANGED <<movements, now, yearRange, sorted, axis, bars, barsHeight, rendered,
                 passNow, prev, parseArg, parseRet, axisVars, pageVars,
                 response, configData, listening>>

\* init() once the fetch has answered: loadConfig(), and either
\* renderTimeline(getMovements()) and setupInteractions(), or showError()
init ==
  LET loaded == loadConfig(response, configData)
      raw == getMovements(loaded.configData)
  IN /\ panel = "loading"
     /\ configData' = loaded.configData
     /\ IF loaded.threw
        THEN /\ panel' = "error"
             /\ UNCHANGED <<movements, now, yearRange, sorted, axis, bars, barsHeight,
                            rendered, passNow, prev, parseArg, parseRet, axisVars,
                            pageVars, response, listening>>
        ELSE /\ sorted' = ArraySort(LayoutRecords(raw), now)
             /\ movements' = assignLanes(LayoutRecords(raw), now, sorted')
             /\ yearRange' = getYearRange(movements', now)
             /\ axis' = renderTimeAxis(yearRange')
             /\ bars' = renderMovementBars(movements', yearRange', now)
             /\ barsHeight' = containerHeight(movements')
             /\ rendered' = TRUE
             /\ passNow' = now
             /\ connections' = ConnectionEntries(raw)
             /\ barClass' = [b \in 1..Len(raw) |-> [selected |-> FALSE, highlighted |-> FALSE]]
             /\ sidebar' = [sidebar EXCEPT !.hidden = TRUE, !.containerHidden = TRUE,
                                           !.shown = NoSelection]
             /\ zoomLevel' = clampZoom(Num(4))
             /\ layerWidth' = zoomWidths(zoomLevel')
             /\ timers' = { [handle |-> 1, kind |-> "init", left |-> InitDelay],
                            [handle |-> 2, kind |-> "zoom", left |-> ZoomDelay] }
             /\ panel' = "timeline"
             /\ listening' = TRUE
             /\ UNCHANGED <<now, prev, parseArg, parseRet, axisVars, currentSelection,
                            svg, resizeTimeout, resizeLog, response>>

NextLoad == showLoading \/ init

SpecLoad == InitLoad /\ [][NextLoad]_vars

\* the condition under which loading the dataset fails
LoadFails ==
  \/ ~response.ok
  \/ ~response.json
  \/ Len(validateMovementData(response.data)) > 0

\* C21: if loading the dataset fails (response not ok, or at least one
\* validation error), renderTimeline and setupInteractions are never
\* invoked, the cache stays unset, getMovements keeps returning the empty
\* list, and init() ends with the error panel in the timeline container.
C21_LoadFailure ==
  /\ [](LoadFails => /\ ~rendered /\ ~listening
                     /\ configData = NoConfig
                     /\ getMovements(configData) = <<>>
                     /\ panel # "timeline")
  /\ [][init /\ LoadFails => panel' = "error"]_vars

\* init() has ended on a document that was fetched and parsed but has a
\* validation error
C21_Witness ==
  /\ panel = "error" /\ response.ok /\ response.json
  /\ Len(validateMovementData(response.data)) > 0

\* the ids of the loaded movements
LoadedIds == {movements[i].id : i \in 1..Len(movements)}

\* C22: whenever the render functions have been invoked, movement ids are
\* pairwise distinct and the target of every connection of every movement
\* is the id of a loaded movement.
C22_ReferencesValid ==
  rendered =>
    /\ \A i, j \in 1..Len(movements) : movements[i].id = movements[j].id => i = j
    /\ \A i \in 1..Len(connections) : \A j \in 1..Len(connections[i]) :
         connections[i][j].to \in LoadedIds

\* beside C22: the ids are distinct, and the targets exist for the
\* connections under the four documented kinds
C22_OnKnownKinds ==
  rendered =>
    /\ \A i, j \in 1..Len(movements) : movements[i].id = movements[j].id => i = j
    /\ \A i \in 1..Len(connections) : \A j \in 1..Len(connections[i]) :
         connections[i][j].type \in KnownKinds => connections[i][j].to \in LoadedIds

---------------------------------------------------------------------------
(* Properties of the render pass, checked under Spec *)

Idx == 1..Len(movements)

\* movement i's parsed period, as the last render pass parsed it
P(i) == parsePeriod(movements[i].period, passNow)
Lane(i) == movements[i].lane

AllInteger == \A i \in Idx : IsInteger(P(i).start) /\ IsInteger(P(i).end)
AllNonEmpty == \A i \in Idx : P(i).start.n < P(i).end.n

ScenarioA == <<Period(1818, 1920), Period(1920, 1960), Period(1950, 1980)>>
PeriodsOf(ms) == [i \in 1..Len(ms) |-> ms[i].period.s]

\* C1: after assignLanes on movements whose periods parse to integer years,
\* two distinct movements in the same lane satisfy m1.end <= m2.start or
\* m2.end <= m1.start.
C1_LaneNonOverlap ==
  rendered /\ AllInteger =>
    \A i, j \in Idx :
      i # j /\ Lane(i) = Lane(j) =>
        P(i).end.n <= P(j).start.n \/ P(j).end.n <= P(i).start.n

\* three movements, two of them sharing a lane at a common boundary year and
\* one pushed to another lane
C1_Witness ==
  /\ rendered /\ AllInteger /\ Len(movements) = 3
  /\ \E i, j \in Idx : i # j /\ Lane(i) = Lane(j) /\ P(i).end.n = P(j).start.n
  /\ \E i \in Idx : Lane(i) # Num(0)

LanesUsed == Cardinality({Lane(i) : i \in Idx})

\* the most movements whose [start, end) hold one common year; a largest
\* such group always holds the start year of one of its members
Covering(t) == {i \in Idx : P(i).start.n <= t /\ t < P(i).end.n}
CliqueNumber ==
  IF Idx = {} THEN 0
  ELSE LET sizes == {Cardinality(Covering(P(i).start.n)) : i \in Idx}
       IN CHOOSE c \in sizes : \A d \in sizes : d <= c

\* C2 as stated: for any list with integer periods, zero-length periods
\* included, the number of lanes used equals the clique number of the
\* intervals [start, end).
C2_Original == rendered /\ AllInteger => LanesUsed = CliqueNumber

\* C2, amended: for lists with integer periods that all have start < end, the
\* number of lanes used equals the clique number of the intervals [start, end).
C2_LaneMinimality == rendered /\ AllInteger /\ AllNonEmpty => LanesUsed = CliqueNumber

\* three non-empty periods, two of them with the same start year, in two lanes
C2_Witness ==
  /\ rendered /\ AllInteger /\ AllNonEmpty /\ Len(movements) = 3
  /\ LanesUsed = 2 /\ CliqueNumber = 2
  /\ \E i, j \in Idx : i # j /\ P(i).start = P(j).start

\* whether two bars' horizontal extents [left, left + width) share a point
Right(b) == JsAdd(b.left, b.width)
ExtentsIntersect(a, b) ==
  /\ JsLt(a.left, Right(a)) /\ JsLt(b.left, Right(b))
  /\ JsLt(a.left, Right(b)) /\ JsLt(b.left, Right(a))

\* C3: after a render pass no two bars overlap: bars of one lane have the same
\* top and disjoint horizontal extents, bars of different lanes have tops
\* lane * 70 that differ by at least the bar height.
C3_NoBarOverlap ==
  rendered =>
    \A i, j \in Idx :
      i # j =>
        IF Lane(i) = Lane(j)
        THEN bars[i].top = bars[j].top /\ ~ExtentsIntersect(bars[i], bars[j])
        ELSE /\ bars[i].top = Num(Lane(i).n * LaneHeight)
             /\ bars[j].top = Num(Lane(j).n * LaneHeight)
             /\ Abs(bars[i].top.n - bars[j].top.n) >= BarHeight

\* beside C3: the overlap needs a period written backwards (end < start);
\* when every period parses to integers with start <= end no two bars overlap
C3_OnOrderedPeriods ==
  (rendered /\ AllInteger /\ \A i \in Idx : P(i).start.n <= P(i).end.n) =>
    \A i, j \in Idx :
      (i # j /\ Lane(i) = Lane(j)) =>
        bars[i].top = bars[j].top /\ ~ExtentsIntersect(bars[i], bars[j])

\* the lanes opened before the k-th movement in sorted order is placed, and
\* the last movement placed in lane c before it
EarlierIn(k, c) == {l \in 1..(k - 1) : Lane(sorted[l]) = Num(c)}
OpenLanes(k) == {c \in 0..Len(movements) : EarlierIn(k, c) # {}}
LastIn(k, c) == sorted[CHOOSE l \in EarlierIn(k, c) : \A h \in EarlierIn(k, c) : h <= l]
Qualifying(k) ==
  {c \in OpenLanes(k) :
     /\ IsInteger(P(LastIn(k, c)).end) /\ IsInteger(P(sorted[k]).start)
     /\ P(LastIn(k, c)).end.n <= P(sorted[k]).start.n}
ExpectedLane(k) ==
  IF Qualifying(k) # {}
  THEN CHOOSE c \in Qualifying(k) : \A d \in Qualifying(k) : c <= d
  ELSE Cardinality(OpenLanes(k))

\* C4: assignLanes processes the movements in ascending start-year order, ties
\* in input order, and gives each the lowest-numbered lane whose recorded end
\* year is <= its start, a new lane at the next index when there is none;
\* 1818-1920, 1920-1960, 1950-1980 get lanes 0, 0, 1.
C4_FirstFit ==
  rendered =>
    /\ Len(sorted) = Len(movements)
    /\ {sorted[k] : k \in 1..Len(sorted)} = Idx
    /\ \A k, l \in 1..Len(sorted) :
         k < l =>
           \/ P(sorted[k]).start.n < P(sorted[l]).start.n
           \/ P(sorted[k]).start.n = P(sorted[l]).start.n /\ sorted[k] < sorted[l]
    /\ \A k \in 1..Len(sorted) : Lane(sorted[k]) = Num(ExpectedLane(k))
    /\ (PeriodsOf(movements) = ScenarioA => LanesOf(movements) = <<Num(0), Num(0), Num(1)>>)

\* the spec's scenario A has been laid out
C4_Witness ==
  rendered /\ PeriodsOf(movements) = ScenarioA
           /\ LanesOf(movements) = <<Num(0), Num(0), Num(1)>>

\* a list given out of start order, with two equal starts, where a later
\* movement reuses lane 0 and another opens lane 1
C4_WitnessTies ==
  /\ rendered /\ Len(movements) = 3 /\ sorted # <<1, 2, 3>>
  /\ \E i, j \in Idx : i # j /\ P(i).start = P(j).start
  /\ \E k \in 2..3 : Lane(sorted[k]) = Num(0)
  /\ \E k \in 2..3 : Lane(sorted[k]) = Num(1)

\* C5: getYearRange returns for any list of movements a minYear and a maxYear
\* that are multiples of 10, with minYear <= every start, maxYear >= every end,
\* rounded outward by less than a decade; 1818 to 2025 gives 1810 and 2030.
C5_RangeDecadeAligned ==
  rendered =>
    /\ IsInteger(yearRange.minYear) /\ IsInteger(yearRange.maxYear)
    /\ yearRange.minYear.n % 10 = 0 /\ yearRange.maxYear.n % 10 = 0
    /\ \A i \in Idx :
         /\ IsInteger(P(i).start) /\ yearRange.minYear.n <= P(i).start.n
         /\ IsInteger(P(i).end) /\ yearRange.maxYear.n >= P(i).end.n
    /\ \E i \in Idx : yearRange.minYear.n > P(i).start.n - 10
    /\ \E i \in Idx : yearRange.maxYear.n < P(i).end.n + 10

\* what does hold of getYearRange: the same, on non-empty lists whose periods
\* all parse to integers
C5_OnIntegerLists ==
  rendered /\ AllInteger /\ Idx # {} =>
    /\ IsInteger(yearRange.minYear) /\ IsInteger(yearRange.maxYear)
    /\ yearRange.minYear.n % 10 = 0 /\ yearRange.maxYear.n % 10 = 0
    /\ \A i \in Idx :
         yearRange.minYear.n <= P(i).start.n /\ yearRange.maxYear.n >= P(i).end.n
    /\ \E i \in Idx : yearRange.minYear.n > P(i).start.n - 10
    /\ \E i \in Idx : yearRange.maxYear.n < P(i).end.n + 10
    /\ ((\E i \in Idx : P(i).start.n = 1818) /\ (\A i \in Idx : P(i).start.n >= 1818)
        /\ (\E i \in Idx : P(i).end.n = 2025) /\ (\A i \in Idx : P(i).end.n <= 2025)
        => yearRange = [minYear |-> Num(1810), maxYear |-> Num(2030)])

\* C6: after the year range is computed every movement satisfies
\* minYear <= start <= end <= maxYear.
C6_RangeChain ==
  rendered =>
    \A i \in Idx :
      /\ JsLe(yearRange.minYear, P(i).start)
      /\ JsLe(P(i).start, P(i).end)
      /\ JsLe(P(i).end, yearRange.maxYear)

\* what does hold: the two outer bounds, when every period parses
C6_OuterBoundsOnIntegerLists ==
  rendered /\ AllInteger =>
    \A i \in Idx :
      yearRange.minYear.n <= P(i).start.n /\ P(i).end.n <= yearRange.maxYear.n

\* C7: a second layout pass over the same movements, now carrying their lanes,
\* run in the same calendar year, leaves every lane and every bar's left and
\* width as the first pass left them.
C7_Idempotent ==
  prev.valid /\ prev.now = passNow =>
    /\ LanesOf(movements) = prev.lanes
    /\ Len(bars) = Len(prev.bars)
    /\ \A i \in 1..Len(bars) :
         bars[i].left = prev.bars[i].left /\ bars[i].width = prev.bars[i].width

\* a second pass in the same year over three movements that use two lanes
C7_Witness ==
  /\ prev.valid /\ prev.now = passNow /\ Len(movements) = 3
  /\ \E i \in Idx : Lane(i) = Num(1)
  /\ \E i \in Idx : IsFinite(bars[i].left) /\ bars[i].left # Num(0)

---------------------------------------------------------------------------
(* Properties of parsePeriod, checked under SpecParse *)

Ret == [start |-> parseRet.start, end |-> parseRet.end]

\* C8: parsePeriod gives 2000..2025 for a null or empty period, A..B for
\* "A-B", A..A+10 for "A", and the current year as end when the second part
\* holds "présent" or "present" in any letter case; "2000-présent" in 2025
\* gives 2000..2025.
C8_ParsePeriod ==
  parseRet.called =>
    /\ parseArg \in {Null, Str(<<>>)} => Ret = [start |-> Num(2000), end |-> Num(2025)]
    /\ \A a, b \in ParseYears :
         parseArg = Str(Period(a, b)) => Ret = [start |-> Num(a), end |-> Num(b)]
    /\ \A a \in ParseYears :
         parseArg = Str(Fmt(a)) => Ret = [start |-> Num(a), end |-> Num(a + 10)]
    /\ \A a \in FirstParts, b \in PresentSpellings :
         parseArg = Str(a \o Dash \o b) => parseRet.end = Num(parseRet.year)
    /\ parseArg = Str(Fmt(2000) \o Dash \o PresentAccent) /\ parseRet.year = 2025
         => Ret = [start |-> Num(2000), end |-> Num(2025)]

\* "2000-PRÉSENT" has been parsed in 2025
C8_Witness ==
  /\ parseRet.called /\ parseRet.year = 2025
  /\ parseArg = Str(Fmt(2000) \o Dash \o <<"P", "R", "É", "S", "E", "N", "T">>)
  /\ Ret = [start |-> Num(2000), end |-> Num(2025)]

\* C9 as stated: a non-empty period whose year parts cannot be parsed comes
\* back with a numeric start and a numeric end.
C9_Original ==
  parseRet.called =>
    \A a \in UnparseableParts, b \in UnparseableParts \cup {<<>>} :
      parseArg \in {Str(a), Str(a \o Dash \o b)}
        => IsFinite(parseRet.start) /\ IsFinite(parseRet.end)

\* C9, amended: a non-empty period whose year parts cannot be parsed raises no
\* error, and no default stands in for what cannot be parsed: an unparseable
\* first part gives start NaN, an unparseable second part gives end NaN, and
\* a missing second part after an unparseable first gives end NaN.
C9_UnparseableIsNaN ==
  parseRet.called =>
    /\ \A a \in UnparseableParts, b \in SecondParts :
         parseArg \in {Str(a), Str(a \o Dash \o b)} => parseRet.start = NaN
    /\ \A a \in FirstParts, b \in UnparseableParts :
         parseArg = Str(a \o Dash \o b) => parseRet.end = NaN
    /\ \A a \in UnparseableParts :
         parseArg \in {Str(a), Str(a \o Dash)} => parseRet.end = NaN
    /\ \A a \in ParseYears, b \in UnparseableParts :
         parseArg = Str(Fmt(a) \o Dash \o b) => parseRet.start = Num(a)

\* "xix-?" has been parsed: both years are NaN
C9_Witness ==
  /\ parseRet.called
  /\ parseArg = Str(<<"x", "i", "x">> \o Dash \o <<"?">>)
  /\ parseRet.start = NaN /\ parseRet.end = NaN

---------------------------------------------------------------------------
(* One malformed period in a render pass, checked under Spec *)

Malformed(i) == ~(IsInteger(P(i).start) /\ IsInteger(P(i).end))

\* C10: when exactly one movement has a malformed period the render pass
\* completes and only that bar is degraded: every other movement has a numeric
\* lane, left and width, and the year range is numeric.
C10_OnlyMalformedBarDegrades ==
  rendered /\ Cardinality({i \in Idx : Malformed(i)}) = 1 =>
    /\ Len(bars) = Len(movements)
    /\ IsFinite(yearRange.minYear) /\ IsFinite(yearRange.maxYear)
    /\ \A i \in Idx :
         ~Malformed(i) =>
           IsInteger(Lane(i)) /\ IsFinite(bars[i].left) /\ IsFinite(bars[i].width)

\* what the pass does keep in that case: it completes with one bar per
\* movement and every movement has an integer lane
C10_LanesStayNumeric ==
  rendered => Len(bars) = Len(movements) /\ \A i \in Idx : IsInteger(Lane(i))


\* C11: assignLanes returns the list it was given, with the same records in
\* their input order; the only field it changes on a record is lane, and every
\* record receives a lane.
C11_OnlyLaneChanges ==
  [][/\ Len(movements') = Len(movements)
     /\ \A i \in 1..Len(movements) :
          [movements'[i] EXCEPT !.lane = movements[i].lane] = movements[i]
     /\ rendered' =>
          \A i \in 1..Len(movements') :
            IsInteger(movements'[i].lane) /\ movements'[i].lane.n >= 0]_vars

\* a pass has run on a list the sort reorders, and the records still stand in
\* input order, each with a lane
C11_Witness ==
  /\ rendered /\ Len(movements) = 3
  /\ sorted = <<3, 1, 2>>
  /\ \A i \in Idx : movements[i].id = Ids[i] /\ IsInteger(Lane(i))

---------------------------------------------------------------------------
(* Properties of yearToPosition and generateDecades, checked under SpecAxis *)

PosCalled == callRet.fn = "yearToPosition"
DecCalled == callRet.fn = "generateDecades"
ProperRange == JsLt(callArg.minYear, callArg.maxYear)

\* C12: for minYear < maxYear and year1 < year2 the position of year1 is less
\* than the position of year2.
C12_PositionMonotone ==
  (PosCalled /\ ProperRange /\ JsLt(callArg.year1, callArg.year2)) =>
    JsLt(callRet.pos1, callRet.pos2)

\* two years half a year apart, inside a proper range, with distinct positions
C12_Witness ==
  /\ PosCalled /\ ProperRange
  /\ callArg.year1 = Num(1910) /\ callArg.year2 = Fin(3821, 2)
  /\ JsLt(callRet.pos1, callRet.pos2)

\* C13 (the function): for minYear < maxYear and minYear <= year <= maxYear
\* yearToPosition is (year - minYear) / (maxYear - minYear) * 100, a value in
\* [0, 100], 0 at minYear and 100 at maxYear; 1910 in 1810..2030 is 500/11.
C13_LinearMap ==
  (PosCalled /\ ProperRange
     /\ JsLe(callArg.minYear, callArg.year1) /\ JsLe(callArg.year1, callArg.maxYear)) =>
    /\ callRet.pos1 =
         Reduce(100 * (callArg.year1.n * callArg.minYear.d - callArg.minYear.n * callArg.year1.d),
                callArg.year1.d * (callArg.maxYear.n - callArg.minYear.n))
    /\ JsLe(Num(0), callRet.pos1) /\ JsLe(callRet.pos1, Num(100))
    /\ (callArg.year1 = callArg.minYear => callRet.pos1 = Num(0))
    /\ (callArg.year1 = callArg.maxYear => callRet.pos1 = Num(100))
    /\ (callArg.year1 = Num(1910) /\ callArg.minYear = Num(1810)
          /\ callArg.maxYear = Num(2030) => callRet.pos1 = Fin(500, 11))

\* C13 (the bars): every bar a render pass placed has left >= 0, width >= 0
\* and left + width <= 100.
C13_BarsWithinCanvas ==
  rendered =>
    \A i \in Idx :
      /\ JsLe(Num(0), bars[i].left) /\ JsLe(Num(0), bars[i].width)
      /\ JsLe(Right(bars[i]), Num(100))

\* beside C13: the bars do lie within the canvas when every period parses to
\* integers with start <= end and the year range is not a single point
C13_BarsOnOrderedPeriods ==
  (rendered /\ AllInteger /\ (\A i \in Idx : P(i).start.n <= P(i).end.n)
     /\ JsLt(yearRange.minYear, yearRange.maxYear)) =>
    \A i \in Idx :
      /\ JsLe(Num(0), bars[i].left) /\ JsLe(Num(0), bars[i].width)
      /\ JsLe(Right(bars[i]), Num(100))

\* whether the decades rise from minYear in steps of exactly 10
RisesByTen(decades, minYear) ==
  /\ Len(decades) >= 1 /\ decades[1] = minYear
  /\ \A k \in 1..(Len(decades) - 1) : decades[k + 1] = JsAdd(decades[k], Num(10))

IntegerRange ==
  /\ IsInteger(callArg.minYear) /\ IsInteger(callArg.maxYear)
  /\ callArg.minYear.n <= callArg.maxYear.n

\* C14 as stated: for any integers minYear <= maxYear generateDecades returns
\* the ascending sequence that starts at minYear, rises by exactly 10 and
\* ends at maxYear.
C14_Original ==
  (DecCalled /\ IntegerRange) =>
    /\ RisesByTen(callRet.decades, callArg.minYear)
    /\ callRet.decades[Len(callRet.decades)] = callArg.maxYear

\* C14: for integers minYear <= maxYear generateDecades returns the ascending
\* sequence that starts at minYear, rises by exactly 10 and ends at the
\* greatest minYear + 10k that is <= maxYear: at maxYear itself exactly when
\* maxYear - minYear is a multiple of 10.
C14_Decades ==
  (DecCalled /\ IntegerRange) =>
    LET last == callRet.decades[Len(callRet.decades)]
    IN /\ RisesByTen(callRet.decades, callArg.minYear)
       /\ JsLe(last, callArg.maxYear) /\ JsLt(callArg.maxYear, JsAdd(last, Num(10)))
       /\ (last = callArg.maxYear <=> (callArg.maxYear.n - callArg.minYear.n) % 10 = 0)

\* an aligned range of several decades, ending at maxYear
C14_Witness ==
  /\ DecCalled /\ callArg.minYear = Num(1810) /\ callArg.maxYear = Num(2030)
  /\ Len(callRet.decades) = 23 /\ callRet.decades[23] = Num(2030)

---------------------------------------------------------------------------
(* Properties of the edge layer, checked under SpecEdges *)

\* a step in which showMovementDetails reached its drawConnections call
SelectDraws ==
  \E id \in BarIds \cup {"m9"} :
    /\ showMovementDetails(id)
    /\ findMovementById(movements, id) # 0
    /\ ~SectionThrows(connections[findMovementById(movements, id)])

\* a step that ran a drawConnections pass
DrawPass == FireTimer \/ SelectDraws

\* the connections of the configuration with these attributes
EntriesLike(from, type, to) ==
  LET i == findMovementById(movements, from)
  IN IF i = 0 THEN {}
     ELSE {j \in 1..Len(connections[i]) : connections[i][j] = [type |-> type, to |-> to]}

\* the elements of the edge layer with this tag and these attributes
ElementsLike(tag, from, type, to) ==
  {k \in 1..Len(svg) :
     svg[k].tag = tag /\ svg[k].from = from /\ svg[k].type = type /\ svg[k].to = to}

HasBar(id) == \E b \in 1..Len(bars) : bars[b].id = id

\* the edge layer holds one path and one arrowhead per connection whose two
\* bars are rendered, and nothing else
EdgeLayerExact ==
  /\ \A k \in 1..Len(svg) :
       /\ HasBar(svg[k].from) /\ HasBar(svg[k].to)
       /\ Cardinality(ElementsLike(svg[k].tag, svg[k].from, svg[k].type, svg[k].to))
            = Cardinality(EntriesLike(svg[k].from, svg[k].type, svg[k].to))
  /\ \A i \in Idx : \A j \in 1..Len(connections[i]) :
       LET from == movements[i].id
           c == connections[i][j]
       IN (HasBar(from) /\ HasBar(c.to)) =>
            /\ Cardinality(ElementsLike("path", from, c.type, c.to))
                 = Cardinality(EntriesLike(from, c.type, c.to))
            /\ Cardinality(ElementsLike("polygon", from, c.type, c.to))
                 = Cardinality(EntriesLike(from, c.type, c.to))

\* C15: right after any drawConnections pass the edge layer holds exactly one
\* path and one arrowhead for each connection whose source and target bars
\* are rendered; a connection with a missing bar is skipped without stopping
\* the others, and nothing of an earlier pass survives.
C15_EdgeLayerAfterDraw == [][DrawPass => EdgeLayerExact']_vars

\* a pass has drawn the one connection with both bars of a configuration
\* that also holds a connection to an id without a bar
C15_Witness ==
  /\ \E i \in Idx : \E j \in 1..Len(connections[i]) : ~HasBar(connections[i][j].to)
  /\ Len(svg) = 2 /\ svg[1].tag = "path" /\ svg[2].tag = "polygon"
  /\ svg[1].from = "m2" /\ svg[1].to = "m3"

\* C16: in every reachable state every drawn edge whose source or target is
\* the current selection is active, and so is its arrowhead.
C16_SelectionEdgesActive ==
  \A k \in 1..Len(svg) :
    TouchesSelection(svg[k].from, svg[k].to, currentSelection) => svg[k].active

\* beside C16: the same, in configurations whose connections all have one of
\* the four documented kinds
C16_OnKnownKinds ==
  (\A i \in Idx : \A j \in 1..Len(connections[i]) : connections[i][j].type \in KnownKinds)
    => C16_SelectionEdgesActive

\* C17: right after highlightConnections(id, false), for any id and any
\* selection, no movement bar is highlighted.
C17_UnhoverClearsBars ==
  [][Unhover => (\A b \in 1..Len(barClass) : ~barClass[b].highlighted)']_vars

\* beside C17: after highlightConnections(id, false) no bar other than the
\* selected one is highlighted
C17_ExceptSelectedBar ==
  [][Unhover =>
       (\A b \in 1..Len(barClass) :
          barClass[b].highlighted => bars[b].id = currentSelection)']_vars

---------------------------------------------------------------------------
(* Properties of the deferred redraws, checked under SpecTimers and SpecTimersFair *)

ResizePending == {t \in timers : t.kind = "resize"}
Handles == 1..(MaxPending + 2)
PendingAs(h, kinds) == \E t \in timers : t.handle = h /\ t.kind \in kinds

\* C18: resize redraws are debounced: at most one is pending, each resize
\* event cancels the pending one, and a burst of events less than 150 ms
\* apart causes exactly one drawConnections call, which runs once 150 ms
\* have passed since the last event of the burst.
C18_Debounce ==
  /\ [](/\ Cardinality(ResizePending) <= 1
        /\ resizeLog.draws <= 1
        /\ (resizeLog.since >= 0 => (resizeLog.draws = 1 <=> ResizePending = {})))
  /\ [][Resize => (ResizePending \cap timers' = {})]_vars
  /\ [][(\E t \in ResizePending : RunTimer(t)) => resizeLog.since >= ResizeDelay]_vars
  /\ ((ResizePending # {}) ~> (ResizePending = {} /\ resizeLog.draws = 1))

\* a burst of three resize events has caused its one redraw
C18_Witness ==
  resizeLog.burst = 3 /\ resizeLog.draws = 1 /\ ResizePending = {} /\ svg # <<>>

\* C19 as stated: no deferred redraw is ever cancelled (a callback leaves the
\* pending set only by running), and every one eventually runs.
C19_Original ==
  /\ [][\A t \in timers :
          (\A u \in timers' : u.handle # t.handle) => RunTimer(t)]_vars
  /\ \A h \in Handles :
       PendingAs(h, {"init", "resize", "zoom"}) ~> ~PendingAs(h, {"init", "resize", "zoom"})

\* C19: the redraws deferred by the initial render and by a zoom change are
\* never cancelled and eventually run; the one deferred by a resize leaves
\* the pending set by running or by the next resize event cancelling it, and
\* a pending one leads to a resize redraw.
C19_DeferredRedraws ==
  /\ [][\A t \in timers :
          (\A u \in timers' : u.handle # t.handle) =>
            (RunTimer(t) \/ (t.kind = "resize" /\ Resize))]_vars
  /\ \A h \in Handles : PendingAs(h, {"init", "zoom"}) ~> ~PendingAs(h, {"init", "zoom"})
  /\ ((ResizePending # {}) ~> (ResizePending = {} /\ resizeLog.draws = 1))

\* the redraws of the initial render, of a zoom change and of a resize have
\* all run
C19_Witness ==
  /\ timers = {} /\ svg # <<>>
  /\ zoomLevel # Num(4) /\ resizeLog.draws = 1

\* C20: the cached year range is the one the last render pass computed, and
\* the bars stand where that range puts them, whatever resizes, zoom changes
\* and drawConnections passes have happened since.
C20_RangeKept ==
  /\ yearRange = getYearRange(movements, passNow)
  /\ bars = renderMovementBars(movements, yearRange, passNow)

\* a zoom change, a resize and its redraw have happened since the render pass
C20_Witness ==
  /\ yearRange = [minYear |-> Num(1810), maxYear |-> Num(1980)]
  /\ zoomLevel # Num(4) /\ resizeLog.draws = 1 /\ svg # <<>>

\* beside C20, under SpecEdges: selection changes, hovers and unhovers leave
\* the year range and the bars as they are
C20_KeptBySelectionAndHover == [][yearRange' = yearRange /\ bars' = bars]_vars

---------------------------------------------------------------------------
(* Properties of the hover layer, checked under SpecEdges *)

Touches(e, id) == e.from = id \/ e.to = id
OtherEnd(e, id) == IF e.from = id THEN e.to ELSE e.from
BarOf(id) == CHOOSE b \in 1..Len(bars) : bars[b].id = id

\* the state highlightConnections(id, true) leaves, given the one before it
HoverEffect(id) ==
  /\ Len(svg') = Len(svg)
  /\ \A k \in 1..Len(svg) :
       IF Touches(svg[k], id)
       THEN /\ svg'[k] = [svg[k] EXCEPT !.active = TRUE]
            /\ barClass'[BarOf(OtherEnd(svg[k], id))].highlighted
       ELSE svg'[k] = svg[k]
  /\ \A b \in 1..Len(bars) :
       IF \E k \in 1..Len(svg) : Touches(svg[k], id) /\ OtherEnd(svg[k], id) = bars[b].id
       THEN barClass'[b].selected = barClass[b].selected
       ELSE barClass'[b] = barClass[b]

\* C23: immediately after highlightConnections(id, true), every drawn edge
\* with from = id or to = id, and its arrowhead, is active and the bar at the
\* other end of each such edge is highlighted; edges that do not touch id and
\* bars not connected to id keep the state they had.
C23_HoverMarks ==
  [][\A id \in BarIds : HighlightConnections(id, TRUE) => HoverEffect(id)]_vars

\* a hover has marked an edge and the bar at its other end, beside an edge
\* it left alone
C23_Witness ==
  /\ currentSelection = NoSelection
  /\ \E k, l \in 1..Len(svg) : svg[k].active /\ ~svg[l].active
  /\ \E b \in 1..Len(bars) : barClass[b].highlighted

\* C24: immediately after any drawConnections pass an edge, and its
\* arrowhead, is active if and only if its source or target is the current
\* selection; with no selection no edge is active, so the marks a hover put
\* on edges do not survive a redraw.
C24_ActiveAfterDraw ==
  [][DrawPass =>
       (\A k \in 1..Len(svg) :
          svg[k].active <=> (/\ currentSelection # NoSelection
                             /\ Touches(svg[k], currentSelection)))']_vars

\* a redraw has cleared the edge marks of a hover whose bar mark is still there
C24_Witness ==
  /\ currentSelection = NoSelection
  /\ svg # <<>>
  /\ \A k \in 1..Len(svg) : ~svg[k].active
  /\ \E b \in 1..Len(bars) : barClass[b].highlighted

ActiveFlags(edges) == [k \in 1..Len(edges) |-> edges[k].active]

\* the edge layer after highlightConnections(id, true) and then
\* highlightConnections(id, false), with nothing in between
HoverThenUnhover(id) ==
  highlightEdges(highlightEdges(svg, id, TRUE, currentSelection), id, FALSE,
                 currentSelection)

\* C25: hover and then unhover of the same bar, with no redraw and no
\* selection change in between, gives every edge and arrowhead the active
\* state it had before the hover, from any reachable state.
C25_HoverRoundTrip ==
  ~TimerDue => \A id \in BarIds : ActiveFlags(HoverThenUnhover(id)) = ActiveFlags(svg)

\* beside C25: the round trip holds from the states where the active edges
\* are the ones that touch the current selection
C25_FromFreshLayer ==
  (/\ ~TimerDue
   /\ \A k \in 1..Len(svg) :
        svg[k].active <=> (currentSelection # NoSelection
                           /\ Touches(svg[k], currentSelection)))
  => \A id \in BarIds : ActiveFlags(HoverThenUnhover(id)) = ActiveFlags(svg)

---------------------------------------------------------------------------
(* Properties of the selection, the zoom level and the sidebar *)

SelectedBars == {b \in 1..Len(bars) : barClass[b].selected}

\* C26: at most one movement bar is selected, and if one is its id equals
\* currentSelection; showMovementDetails(id) with an id no loaded movement
\* has changes nothing; once set, currentSelection is never reset to null.
C26_Selection ==
  /\ [](/\ Cardinality(SelectedBars) <= 1
        /\ \A b \in SelectedBars : bars[b].id = currentSelection)
  /\ [][\A id \in UnknownIds : showMovementDetails(id) => UNCHANGED vars]_vars
  /\ [][currentSelection # NoSelection => currentSelection' # NoSelection]_vars

\* the selection has moved to a second bar and the sidebar shows it
C26_Witness ==
  /\ currentSelection = "m2" /\ sidebar.shown = "m2"
  /\ SelectedBars = {BarOf("m2")}
  /\ \E k \in 1..Len(svg) : svg[k].active

ZoomLevels == {Fin(1, 2)} \cup {Num(n) : n \in 1..8} \cup {Fin(2 * n + 1, 2) : n \in 1..7}
ZoomPending == {t \in timers : t.kind = "zoom"}

\* C27: the zoom level stays within [0.5, 8.0] and is a multiple of 0.5;
\* zoom-in at 8.0 and zoom-out at 0.5 leave the level unchanged but still
\* schedule a redraw; the time axis, the bar container and the connection
\* layer share the width 300 * zoomLevel percent.
C27_Zoom ==
  /\ [](/\ zoomLevel \in ZoomLevels
        /\ layerWidth.timeAxis = JsMul(Num(300), zoomLevel)
        /\ layerWidth.movementBars = layerWidth.timeAxis
        /\ layerWidth.connectionsSvg = layerWidth.timeAxis)
  /\ [][(ZoomIn /\ zoomLevel = Num(8)) \/ (ZoomOut /\ zoomLevel = Fin(1, 2)) =>
          /\ zoomLevel' = zoomLevel
          /\ \E t \in timers' \ timers : t.kind = "zoom" /\ t.left = ZoomDelay]_vars

\* the level is at its lower limit with redraws pending, one of them just scheduled
C27_Witness ==
  /\ zoomLevel = Fin(1, 2)
  /\ layerWidth.connectionsSvg = Num(150)
  /\ Cardinality(ZoomPending) >= 2
  /\ \E t \in ZoomPending : t.left = ZoomDelay

\* C28: the three sidebar flags agree: the toggle button is active iff the
\* details sidebar is not hidden iff the container is not marked
\* sidebar-hidden; selecting a movement leaves the sidebar shown.
C28_SidebarFlags ==
  /\ []((sidebar.toggleActive <=> ~sidebar.hidden)
        /\ (~sidebar.hidden <=> ~sidebar.containerHidden))
  /\ [][\A id \in BarIds : showMovementDetails(id) =>
          (~sidebar.hidden /\ ~sidebar.containerHidden /\ sidebar.toggleActive)']_vars

\* a movement was selected and the sidebar then hidden with the toggle button
C28_Witness ==
  /\ currentSelection # NoSelection
  /\ sidebar.shown # NoSelection
  /\ sidebar.hidden /\ sidebar.containerHidden /\ ~sidebar.toggleActive

=============================================================================
